---- MODULE Spec2Model ----
(***************************************************************************)
(* Model of reefcraft::Sampler (core/src/reefcraft.cpp, reefcraft.hpp):    *)
(* a seeded sampler that partitions time into cycles of random period and  *)
(* amplitude and returns amplitude * sin(phase) for a queried time.        *)
(*                                                                         *)
(* The members are IEEE-754 binary floats.  The model keeps the structure  *)
(* of that arithmetic (a fixed number of significand bits, round to        *)
(* nearest with ties to even, overflow to infinity, NaN, comparisons that  *)
(* are false on NaN) on a scaled-down format: MantBits significand bits    *)
(* instead of 24.  A finite float is the integer number of quanta          *)
(* 2^-FracBits it is worth; the two infinities and NaN are sentinels.      *)
(* Float expressions are evaluated in float precision (no wider            *)
(* intermediate).  std::mt19937 and std::sin belong to the C++ library:    *)
(* the engine is a small deterministic generator whose state and outputs   *)
(* are a function of the seed, the sine a rational approximation.          *)
(*                                                                         *)
(* Four specifications share the instance theSampler:                      *)
(*   Spec         calls on one instance, with the history since the seed;  *)
(*   SpecBinding  the Python module's seed / sim_value on its static one;  *)
(*   SpecCall     the same calls, each observed from its entry on;         *)
(*   SpecRace     two threads inside Seed / SimValue, statement by         *)
(*                statement.                                               *)
(***************************************************************************)
EXTENDS Integers, Sequences, FiniteSets, TLC

\* ------------------------------------------------------------------ floats

\* Significand bits of the model's float (binary32 has 24).
MantBits == 4

\* The quantum is 2^-FracBits; One is the float 1.0 in quanta.
FracBits == MantBits + 3
One == 2 ^ FracBits
Half == One \div 2

\* Largest finite float, the two infinities and NaN.
MaxFinite == (2 ^ MantBits - 1) * 2 ^ (2 * MantBits + 5)
PosInf == 2 * MaxFinite
NegInf == 0 - PosInf
NaN == PosInf + 1

IsNaN(x) == x = NaN
IsInf(x) == x = PosInf \/ x = NegInf
IsFinite(x) == ~IsNaN(x) /\ ~IsInf(x)

Abs(n) == IF n < 0 THEN 0 - n ELSE n

\* Unit in the last place of the binade that holds the magnitude q (q >= 0):
\* the least power of two u with q < 2^MantBits * u.
RECURSIVE UlpFrom(_, _)
UlpFrom(q, u) == IF q < 2 ^ MantBits * u THEN u ELSE UlpFrom(q, 2 * u)

Ulp(q) == UlpFrom(q, 1)

\* num/den (den > 0, num >= 0) in quanta, rounded to nearest, ties to even.
RoundMag(num, den) ==
  LET u == Ulp(num \div den)
      k == num \div (den * u)
      r == num - k * den * u
      up == 2 * r > den * u \/ (2 * r = den * u /\ k % 2 = 1)
  IN (IF up THEN k + 1 ELSE k) * u

\* The float nearest to the rational num/den quanta; overflow gives infinity.
RoundRat(num, den) ==
  LET m == RoundMag(Abs(num), den)
  IN IF m > MaxFinite THEN (IF num < 0 THEN NegInf ELSE PosInf)
     ELSE IF num < 0 THEN 0 - m ELSE m

\* float operator+
fadd(a, b) ==
  IF IsNaN(a) \/ IsNaN(b) THEN NaN
  ELSE IF IsInf(a) /\ IsInf(b) THEN (IF a = b THEN a ELSE NaN)
  ELSE IF IsInf(a) THEN a
  ELSE IF IsInf(b) THEN b
  ELSE RoundRat(a + b, 1)

\* float operator-
fsub(a, b) == fadd(a, IF IsNaN(b) THEN NaN ELSE 0 - b)

Sign(x) == IF x < 0 THEN 0 - 1 ELSE 1

\* float operator*
fmul(a, b) ==
  IF IsNaN(a) \/ IsNaN(b) THEN NaN
  ELSE IF IsInf(a) \/ IsInf(b)
    THEN (IF a = 0 \/ b = 0 THEN NaN
          ELSE IF Sign(a) = Sign(b) THEN PosInf ELSE NegInf)
  ELSE RoundRat(a * b, One)

\* float operator/ by a finite positive divisor (a period)
fdiv(a, b) ==
  IF IsNaN(a) \/ IsNaN(b) THEN NaN
  ELSE IF IsInf(a) THEN a
  ELSE RoundRat(a * One, b)

\* float operator>= : false when either side is NaN
fge(a, b) == ~IsNaN(a) /\ ~IsNaN(b) /\ a >= b

\* float(n) for a non-negative integer n (an engine output or a range)
ToFloat(n) == RoundRat(n * One, 1)

\* ------------------------------------------------------------------ sine

\* pi and 2*pi to the precision of the quantum (the real period of sine,
\* which the float constant 2.0f * float(M_PI) only approximates).
PiQ == (205887 * One) \div 65536
TwoPiQ == 2 * PiQ

\* sin on [0, pi] (x in quanta): 16x(pi-x) / (5pi^2 - 4x(pi-x)), a rational
\* approximation that is 0 at 0 and pi and never exceeds 1.
SinHalfTurn(x) ==
  LET y == x * (PiQ - x)
  IN RoundRat(16 * y * One, 5 * PiQ * PiQ - 4 * y)

\* std::sin(float): NaN for NaN and for an infinite argument; odd; periodic
\* with the real period 2*pi; |sin| <= 1.
Sin(x) ==
  IF ~IsFinite(x) THEN NaN
  ELSE LET r == Abs(x) % TwoPiQ
           s == IF r <= PiQ THEN SinHalfTurn(r) ELSE 0 - SinHalfTurn(r - PiQ)
       IN IF x < 0 THEN 0 - s ELSE s

\* static_cast<float>(M_PI) and 2.0f * static_cast<float>(M_PI)
PiF == RoundRat(205887 * One, 65536)
TwoPiF == fmul(2 * One, PiF)

\* ---------------------------------------------------------- random engine

\* std::mt19937 is modelled as a full-period congruential engine with
\* EngineBits-bit outputs: more bits than the float's significand, as the
\* 32-bit engine has more than 24.
EngineBits == MantBits + 1
EngineRange == 2 ^ EngineBits

\* m_Rng.seed(inSeed) / m_Rng(inSeed): the state is a function of the seed.
SeedEngine(inSeed) == inSeed % EngineRange

\* One call of m_Rng(): the next state, which is also the value returned.
NextEngine(x) == (5 * x + 3) % EngineRange

\* std::generate_canonical<float>: float(u) / float(range).  The conversion
\* float(u) rounds, so the greatest outputs give 1.0 and the distribution can
\* return its upper limit (libraries that clamp below 1.0 return less).
Canonical(u) == fdiv(ToFloat(u), ToFloat(EngineRange))

\* std::uniform_real_distribution<float>(a, b)(engine output u):
\* (b - a) * canonical + a.
UniformReal(a, b, u) == fadd(fmul(fsub(b, a), Canonical(u)), a)

\* The float literals of the two distributions.
PeriodLo == RoundRat(One, 2)
PeriodHi == RoundRat(3 * One, 2)
AmpLo == RoundRat(One, 10)
AmpHi == RoundRat(One, 1)

\* A period distribution over [0, 1.5].
m_PeriodDistFromZero(u) == UniformReal(0, PeriodHi, u)

m_PeriodDist(u) == UniformReal(PeriodLo, PeriodHi, u)
m_AmpDist(u) == UniformReal(AmpLo, AmpHi, u)

\* ---------------------------------------------------------------- Sampler

\* Another default than the binding's seed.
DefaultSeedOther == 12345 + 1

\* explicit Sampler(uint32_t inSeed = 12345u)
DefaultSeed == 12345

\* static reefcraft::Sampler theSampler{12345u};  (the binding's instance)
BindingSeed == 12345

\* Sampler::Sampler(inSeed): cycle start 0, engine seeded, then the first
\* cycle's period and amplitude drawn in that order.
Construct(inSeed) ==
  LET r1 == NextEngine(SeedEngine(inSeed))
      r2 == NextEngine(r1)
  IN [m_CycleStart |-> 0,
      m_Period |-> m_PeriodDist(r1),
      m_Amplitude |-> m_AmpDist(r2),
      m_Rng |-> r2]

\* Seed without the reset of m_CycleStart.
SeedOpKeepsCycleStart(self, inSeed) ==
  LET r1 == NextEngine(SeedEngine(inSeed))
      r2 == NextEngine(r1)
  IN [self EXCEPT !.m_Rng = r2,
                  !.m_Period = m_PeriodDist(r1),
                  !.m_Amplitude = m_AmpDist(r2)]

\* Seed that reseeds and resets but keeps the old cycle's period and amplitude.
SeedOpNoRedraw(self, inSeed) ==
  [self EXCEPT !.m_Rng = SeedEngine(inSeed), !.m_CycleStart = 0]

\* Sampler::Seed(inSeed) on the instance self, statement by statement.
SeedOp(self, inSeed) ==
  LET s1 == [self EXCEPT !.m_Rng = SeedEngine(inSeed)]
      s2 == [s1 EXCEPT !.m_CycleStart = 0]
      s3 == [s2 EXCEPT !.m_Rng = NextEngine(s2.m_Rng),
                       !.m_Period = m_PeriodDist(NextEngine(s2.m_Rng))]
  IN [s3 EXCEPT !.m_Rng = NextEngine(s3.m_Rng),
                !.m_Amplitude = m_AmpDist(NextEngine(s3.m_Rng))]

\* The loop condition with > for >=.
LoopCondStrict(self, t) ==
  ~IsNaN(t) /\ t > fadd(self.m_CycleStart, self.m_Period)

\* The loop condition without the period: advance as soon as the cycle began.
LoopCondEarly(self, t) == fge(t, self.m_CycleStart)

\* The loop condition that holds only while the time lies in the cycle after
\* the current one: a later time no longer advances.
LoopCondWindow(self, t) ==
  /\ fge(t, fadd(self.m_CycleStart, self.m_Period))
  /\ ~fge(t, fadd(fadd(self.m_CycleStart, self.m_Period), self.m_Period))

\* The condition of SimValue's while loop.
LoopCond(self, t) == fge(t, fadd(self.m_CycleStart, self.m_Period))

\* The loop body with m_CycleStart -= m_Period.
AdvanceBackwards(self) ==
  LET r1 == NextEngine(self.m_Rng)
      r2 == NextEngine(r1)
  IN [m_CycleStart |-> fsub(self.m_CycleStart, self.m_Period),
      m_Period |-> m_PeriodDist(r1),
      m_Amplitude |-> m_AmpDist(r2),
      m_Rng |-> r2]

\* The loop body drawing the amplitude before the period.
AdvanceAmplitudeFirst(self) ==
  LET s1 == [self EXCEPT !.m_CycleStart = fadd(self.m_CycleStart, self.m_Period)]
      s2 == [s1 EXCEPT !.m_Rng = NextEngine(s1.m_Rng),
                       !.m_Amplitude = m_AmpDist(NextEngine(s1.m_Rng))]
  IN [s2 EXCEPT !.m_Rng = NextEngine(s2.m_Rng),
                !.m_Period = m_PeriodDist(NextEngine(s2.m_Rng))]

\* The body of SimValue's while loop: one completed cycle is left behind.
Advance(self) ==
  LET s1 == [self EXCEPT !.m_CycleStart = fadd(self.m_CycleStart, self.m_Period)]
      s2 == [s1 EXCEPT !.m_Rng = NextEngine(s1.m_Rng),
                       !.m_Period = m_PeriodDist(NextEngine(s1.m_Rng))]
  IN [s2 EXCEPT !.m_Rng = NextEngine(s2.m_Rng),
                !.m_Amplitude = m_AmpDist(NextEngine(s2.m_Rng))]

\* float theta = 2.0f * float(M_PI) * (inTime - m_CycleStart) / m_Period
Theta(self, t) ==
  fdiv(fmul(TwoPiF, fsub(t, self.m_CycleStart)), self.m_Period)

\* return m_Amplitude * std::sin(theta)
Value(self, t) == fmul(self.m_Amplitude, Sin(Theta(self, t)))

\* SimValue as one call: the loop run to its exit.  The fuel only bounds the
\* unrolling; LoopFuel iterations are more than any returning call makes.
LoopFuel == 2 ^ (MantBits + 4)

RECURSIVE RunLoop(_, _, _)
RunLoop(self, t, fuel) ==
  IF fuel = 0 \/ ~LoopCond(self, t) THEN self
  ELSE RunLoop(Advance(self), t, fuel - 1)

SimValueState(self, t) == RunLoop(self, t, LoopFuel)
SimValueResult(self, t) == Value(SimValueState(self, t), t)

\* The sampler after the calls SimValue(ts[1]), ..., SimValue(ts[n]), and
\* the values those calls return.
RECURSIVE ReplayState(_, _)
ReplayState(self, ts) ==
  IF ts = << >> THEN self
  ELSE ReplayState(SimValueState(self, Head(ts)), Tail(ts))

RECURSIVE ReplayValues(_, _)
ReplayValues(self, ts) ==
  IF ts = << >> THEN << >>
  ELSE <<SimValueResult(self, Head(ts))>>
         \o ReplayValues(SimValueState(self, Head(ts)), Tail(ts))

\* ------------------------------------------------------------ state machine

\* Calls recorded after a construction or a Seed.
MaxHist == 2

VARIABLES
  theSampler,   \* the Sampler instance: m_CycleStart, m_Period, m_Amplitude, m_Rng
  pc,           \* "idle", or "loop" while a SimValue call is in its loop
  inTime,       \* argument of the current / last SimValue call
  theta,        \* local theta of the last returned call
  result,       \* value the last call returned
  lastOp,       \* "Construct", "Seed" or "SimValue": the last completed call
  lastSeed,     \* seed of the last construction or Seed
  seeded,       \* TRUE once Seed has been called on the instance
  dirty,        \* the last Seed found the instance in another state than it left it in
  atBoundary,   \* the current / last call was entered with inTime = the cycle's end
  recording,    \* TRUE while times holds every call since lastSeed was set
                \* (at most MaxHist calls, all with times below SatTime)
  times,        \* arguments of the returned calls since then
  values,       \* the values they returned
  minTime,      \* least argument passed to SimValue since then (PosInf: none)
  maxTime       \* greatest argument passed since then, or 0 if none exceeds 0

vars == <<theSampler, pc, inTime, theta, result, lastOp, lastSeed, seeded,
          dirty, atBoundary, recording, times, values, minTime, maxTime>>

\* What the other specifications of this module observe; Spec leaves it alone.
VARIABLES
  entry,        \* SpecCall: the instance as the current / last SimValue call found it
  iters,        \* SpecCall: loop iterations the current / last call has made
  pyCalls,      \* SpecBinding: the module-level calls made, in order
  pyReturns,    \* SpecBinding: what each of them returned
  tpc,          \* SpecRace: each thread's position in its call
  tCall,        \* SpecRace: each thread's call, its function and argument
  tTheta,       \* SpecRace: each thread's local theta
  tRet,         \* SpecRace: what each thread's call returned
  overlapped    \* SpecRace: one call began while the other was in progress

callVars == <<entry, iters>>
pyVars == <<pyCalls, pyReturns>>
raceVars == <<tpc, tCall, tTheta, tRet, overlapped>>
auxVars == <<callVars, pyVars, raceVars>>
histVars == <<lastSeed, seeded, dirty, atBoundary, recording, times, values,
              minTime, maxTime>>
allVars == <<vars, auxVars>>

\* The two threads (or callers) that share the instance.
Threads == {1, 2}

\* Seeds the callers pass (uint32_t); the tests' seeds are among them.
Seeds == {0, 123, 456, 999, DefaultSeed}

\* The first float of the binade in which no period changes a sum any more.
SatTime == ToFloat(2 ^ (MantBits + 1))

CycleEnd(self) == fadd(self.m_CycleStart, self.m_Period)
MidCycle(self) == fadd(self.m_CycleStart, fmul(Half, self.m_Period))

\* Times the callers pass (float): fixed ones, the exact end and the middle
\* of the current cycle, huge ones and the three non-finite floats.
TimeInputs(self) ==
  {NaN, PosInf, NegInf, 0 - MaxFinite, 0 - One, 0, 3 * One, SatTime,
   CycleEnd(self), MidCycle(self)}

\* No call has been made yet on the instance, in any of the specifications.
NoCalls ==
  /\ pc = "idle"
  /\ inTime = 0
  /\ theta = 0
  /\ result = 0
  /\ lastOp = "Construct"
  /\ seeded = FALSE
  /\ dirty = FALSE
  /\ atBoundary = FALSE
  /\ recording = TRUE
  /\ times = << >>
  /\ values = << >>
  /\ minTime = PosInf
  /\ maxTime = 0
  /\ entry = Construct(DefaultSeed)
  /\ iters = 0
  /\ pyCalls = << >>
  /\ pyReturns = << >>
  /\ tpc = [i \in Threads |-> "start"]
  /\ tCall = [i \in Threads |-> [fn |-> "none", arg |-> 0]]
  /\ tTheta = [i \in Threads |-> 0]
  /\ tRet = [i \in Threads |-> << >>]
  /\ overlapped = FALSE

\* reefcraft::Sampler theSampler;  (default argument)
Init ==
  /\ theSampler = Construct(DefaultSeed)
  /\ lastSeed = DefaultSeed
  /\ NoCalls

\* theSampler.Seed(inSeed)
Seed(inSeed) ==
  /\ pc = "idle"
  /\ theSampler' = SeedOp(theSampler, inSeed)
  /\ lastOp' = "Seed"
  /\ lastSeed' = inSeed
  /\ seeded' = TRUE
  /\ dirty' = (theSampler # SeedOp(theSampler, inSeed))
  /\ inTime' = 0
  /\ theta' = 0
  /\ result' = 0
  /\ atBoundary' = FALSE
  /\ recording' = TRUE
  /\ times' = << >>
  /\ values' = << >>
  /\ minTime' = PosInf
  /\ maxTime' = 0
  /\ UNCHANGED <<pc, auxVars>>

\* theSampler.SimValue(t): entry.  A time at or beyond SatTime ends the
\* recording: the recorded runs are those of times below the float's
\* saturation point.
SimValueCall(t) ==
  /\ pc = "idle"
  /\ pc' = "loop"
  /\ inTime' = t
  /\ theta' = 0
  /\ result' = 0
  /\ atBoundary' = (t = CycleEnd(theSampler))
  /\ minTime' = IF ~IsNaN(t) /\ t < minTime THEN t ELSE minTime
  /\ maxTime' = IF ~IsNaN(t) /\ t > maxTime THEN t ELSE maxTime
  /\ IF fge(t, SatTime)
       THEN /\ recording' = FALSE
            /\ times' = << >>
            /\ values' = << >>
            /\ dirty' = FALSE
       ELSE UNCHANGED <<recording, times, values, dirty>>
  /\ UNCHANGED <<theSampler, lastOp, lastSeed, seeded, auxVars>>

\* one iteration of the while loop
SimValueLoop ==
  /\ pc = "loop"
  /\ LoopCond(theSampler, inTime)
  /\ theSampler' = Advance(theSampler)
  /\ UNCHANGED <<pc, inTime, theta, result, lastOp, lastSeed, seeded, dirty,
                 atBoundary, recording, times, values, minTime, maxTime,
                 auxVars>>

\* loop exit, theta and the return
SimValueReturn ==
  /\ pc = "loop"
  /\ ~LoopCond(theSampler, inTime)
  /\ theta' = Theta(theSampler, inTime)
  /\ result' = Value(theSampler, inTime)
  /\ pc' = "idle"
  /\ lastOp' = "SimValue"
  /\ IF recording /\ Len(times) < MaxHist
       THEN /\ times' = Append(times, inTime)
            /\ values' = Append(values, Value(theSampler, inTime))
            /\ recording' = TRUE
            /\ dirty' = dirty
       ELSE /\ times' = << >>
            /\ values' = << >>
            /\ recording' = FALSE
            /\ dirty' = FALSE
  /\ UNCHANGED <<theSampler, inTime, lastSeed, seeded, atBoundary, minTime,
                 maxTime, auxVars>>

Next ==
  \/ \E inSeed \in Seeds : Seed(inSeed)
  \/ \E t \in TimeInputs(theSampler) : SimValueCall(t)
  \/ SimValueLoop
  \/ SimValueReturn

Spec == Init /\ [][Next]_allVars

\* ------------------------------------------------------------------ claims

Returned == pc = "idle" /\ lastOp = "SimValue"

\* A call in its loop can never leave it: the condition holds, and no period
\* the distribution can draw changes m_CycleStart any more.
Stuck(self, t) ==
  /\ LoopCond(self, t)
  /\ fge(t, self.m_CycleStart)
  /\ \A u \in 0 .. EngineRange - 1 :
       fadd(self.m_CycleStart, m_PeriodDist(u)) = self.m_CycleStart

\* C1 (determinism): after Seed(s) or Construct(s), whatever the instance did
\* before, the values returned by SimValue(t1), ..., SimValue(tn) and the
\* state they leave are those of a fresh Sampler(s) given the same times: a
\* function of s and t1..tn alone, so two such runs agree value for value.
InvC1 ==
  (pc = "idle" /\ recording) =>
    /\ values = ReplayValues(Construct(lastSeed), times)
    /\ theSampler = ReplayState(Construct(lastSeed), times)

\* C1 witness: a full recorded run after a Seed that found the instance used.
WitC1 ==
  /\ pc = "idle" /\ recording /\ seeded /\ dirty
  /\ Len(times) = MaxHist
  /\ theSampler.m_CycleStart > 0

\* C2 (Seed is reconstruction): right after Seed(s), from any state, the
\* instance is Construct(s): m_CycleStart 0, the engine seeded with s and
\* advanced by two draws, period the first draw and amplitude the second.
InvC2 ==
  (pc = "idle" /\ lastOp = "Seed") =>
    LET r1 == NextEngine(SeedEngine(lastSeed))
        r2 == NextEngine(r1)
    IN /\ theSampler = Construct(lastSeed)
       /\ theSampler.m_CycleStart = 0
       /\ theSampler.m_Rng = r2
       /\ theSampler.m_Period = m_PeriodDist(r1)
       /\ theSampler.m_Amplitude = m_AmpDist(r2)

\* C2 witness: a Seed that changed the instance.
WitC2 == lastOp = "Seed" /\ dirty /\ pc = "idle"

\* C3 (boundedness) as claimed: every returned call with a finite time gives
\* a finite value v with |v| <= amplitude <= 1.0.
CexC3 ==
  (Returned /\ IsFinite(inTime)) =>
    /\ IsFinite(result)
    /\ Abs(result) <= theSampler.m_Amplitude
    /\ theSampler.m_Amplitude <= One

CexC5 == (pc = "loop" /\ IsFinite(inTime)) => ~Stuck(theSampler, inTime)

\* C6 (parameter ranges): always 0.5 <= period <= 1.5 and
\* 0.1 <= amplitude <= 1.0; in particular the period is not 0.
InvC6 ==
  /\ 2 * theSampler.m_Period >= One
  /\ 2 * theSampler.m_Period <= 3 * One
  /\ 10 * theSampler.m_Amplitude >= One
  /\ theSampler.m_Amplitude <= One
  /\ theSampler.m_Period # 0

\* C6 witness: a call has advanced the cycle and redrawn both parameters.
WitC6 ==
  /\ Returned
  /\ theSampler.m_CycleStart > 0
  /\ theSampler.m_Period # Construct(lastSeed).m_Period
  /\ theSampler.m_Amplitude # Construct(lastSeed).m_Amplitude

\* C7 as claimed: m_CycleStart <= every time passed to SimValue since the
\* last Seed or construction, the current one included.
CexC7 == theSampler.m_CycleStart <= minTime

\* C7 as amended: m_CycleStart <= the greatest time passed to SimValue since
\* the last Seed or construction, or 0 when none of them is positive.
InvC7 == theSampler.m_CycleStart <= maxTime

\* C7 witness: the cycle was advanced, and a later call asked for a time
\* before the cycle's start.
WitC7 ==
  /\ Returned
  /\ theSampler.m_CycleStart > 0
  /\ inTime < theSampler.m_CycleStart
  /\ IsFinite(maxTime)

\* C8 (monotone cycle start): no step of a SimValue call lowers m_CycleStart;
\* the only step that lowers it is a Seed, which sets it to 0.
PropC8 ==
  [][/\ (pc = "loop" \/ pc' = "loop") =>
          theSampler'.m_CycleStart >= theSampler.m_CycleStart
     /\ theSampler'.m_CycleStart < theSampler.m_CycleStart =>
          (pc = "idle" /\ lastOp' = "Seed" /\ theSampler'.m_CycleStart = 0)]_vars

\* C8 witness: a call advanced m_CycleStart above 0 and returned.
WitC8 == Returned /\ theSampler.m_CycleStart > 0 /\ inTime >= theSampler.m_CycleStart

\* C9 (default seed): until Seed is called, a default-constructed instance
\* is in the state and returns the values of an instance constructed with
\* 12345, the binding's module-level sampler.
InvC9 ==
  (pc = "idle" /\ recording /\ ~seeded) =>
    /\ values = ReplayValues(Construct(BindingSeed), times)
    /\ theSampler = ReplayState(Construct(BindingSeed), times)

\* C9 witness: a default-constructed instance after a full recorded run.
WitC9 ==
  /\ pc = "idle" /\ recording /\ ~seeded
  /\ Len(times) = MaxHist
  /\ theSampler.m_CycleStart > 0

\* C10 (totality) as claimed: a call with a non-finite time is never in a
\* loop it cannot leave.
CexC10 == (pc = "loop" /\ ~IsFinite(inTime)) => ~Stuck(theSampler, inTime)

\* ------------------------------------------------------- the Python binding

\* The call state and history of Spec, which the other specifications freeze.
ctlVars == <<pc, inTime, theta, result, lastOp>>

\* static reefcraft::Sampler theSampler{12345u};
InitBinding ==
  /\ theSampler = Construct(BindingSeed)
  /\ lastSeed = BindingSeed
  /\ NoCalls

\* sim_value evaluated on a copy of the module's sampler: the cursor is lost.
SimValueForwardOnCopy(self, t) ==
  [state |-> self, ret |-> <<SimValueResult(self, t)>>]

\* [](uint32_t inSeed) { theSampler.Seed(inSeed); }  (returns None)
SeedForward(self, inSeed) ==
  [state |-> SeedOp(self, inSeed), ret |-> << >>]

\* [](float inTime) { return theSampler.SimValue(inTime); }
SimValueForward(self, t) ==
  [state |-> SimValueState(self, t), ret |-> <<SimValueResult(self, t)>>]

\* The times below the float's saturation point: a call with a time at or
\* beyond it stays in its loop, as the loop of Spec shows.
TimesBelowSat(self) == {t \in TimeInputs(self) : ~fge(t, SatTime)}

\* SimValue(t) on self comes back (its loop ends within the fuel).
Returns(self, t) == ~LoopCond(SimValueState(self, t), t)

\* reefcraft.seed(inSeed), called by one of the module's importers
seed(caller, inSeed) ==
  /\ Len(pyCalls) < MaxHist
  /\ LET call == SeedForward(theSampler, inSeed)
     IN /\ theSampler' = call.state
        /\ pyReturns' = Append(pyReturns, call.ret)
  /\ pyCalls' = Append(pyCalls, [caller |-> caller, fn |-> "seed", arg |-> inSeed])
  /\ UNCHANGED <<ctlVars, histVars, callVars, raceVars>>

\* reefcraft.sim_value(t), called by one of the module's importers; a call
\* that never comes back has no place in the sequence of returned values.
sim_value(caller, t) ==
  /\ Len(pyCalls) < MaxHist
  /\ Returns(theSampler, t)
  /\ LET call == SimValueForward(theSampler, t)
     IN /\ theSampler' = call.state
        /\ pyReturns' = Append(pyReturns, call.ret)
  /\ pyCalls' = Append(pyCalls, [caller |-> caller, fn |-> "sim_value", arg |-> t])
  /\ UNCHANGED <<ctlVars, histVars, callVars, raceVars>>

NextBinding ==
  \/ \E caller \in Threads, inSeed \in Seeds : seed(caller, inSeed)
  \/ \E caller \in Threads, t \in TimesBelowSat(theSampler) : sim_value(caller, t)

SpecBinding == InitBinding /\ [][NextBinding]_allVars

\* The same calls made directly on one Sampler of the core.
CoreStep(self, c) ==
  IF c.fn = "seed" THEN SeedOp(self, c.arg) ELSE SimValueState(self, c.arg)

CoreReturn(self, c) ==
  IF c.fn = "seed" THEN << >> ELSE <<SimValueResult(self, c.arg)>>

RECURSIVE CoreState(_, _)
CoreState(self, calls) ==
  IF calls = << >> THEN self
  ELSE CoreState(CoreStep(self, Head(calls)), Tail(calls))

RECURSIVE CoreReturns(_, _)
CoreReturns(self, calls) ==
  IF calls = << >> THEN << >>
  ELSE <<CoreReturn(self, Head(calls))>>
         \o CoreReturns(CoreStep(self, Head(calls)), Tail(calls))

\* C11 (pass-through binding): whoever makes them, the module-level calls
\* return what the same sequence of Seed and SimValue calls returns on one
\* Sampler constructed with 12345, and leave the module's sampler in the
\* state of that one Sampler.
InvC11 ==
  /\ pyReturns = CoreReturns(Construct(12345), pyCalls)
  /\ theSampler = CoreState(Construct(12345), pyCalls)

\* C11 witness: the second caller's sim_value returns another value than it
\* would have without the first caller's call.
WitC11 ==
  /\ Len(pyCalls) = 2
  /\ pyCalls[1].caller # pyCalls[2].caller
  /\ pyCalls[2].fn = "sim_value"
  /\ pyReturns[2] # CoreReturn(Construct(12345), pyCalls[2])

\* ------------------------------------------- one call of SimValue, observed

\* The greatest float below the end of the current cycle (the end is positive).
LastInCycle(self) == CycleEnd(self) - Ulp(CycleEnd(self) - 1)

\* Times passed in SpecCall: those below the saturation point, the last float
\* of the current cycle, and the first float of the binade in which a period
\* below 1 no longer changes a sum.
CallTimes(self) ==
  {t \in TimeInputs(self) \cup {LastInCycle(self)} : ~fge(t, SatTime)}
    \cup {ToFloat(2 ^ MantBits)}

\* theSampler.Seed(inSeed)
SeedObserved(inSeed) ==
  /\ pc = "idle"
  /\ theSampler' = SeedOp(theSampler, inSeed)
  /\ entry' = SeedOp(theSampler, inSeed)
  /\ iters' = 0
  /\ lastOp' = "Seed"
  /\ inTime' = 0
  /\ theta' = 0
  /\ result' = 0
  /\ UNCHANGED <<pc, histVars, pyVars, raceVars>>

\* theSampler.SimValue(t): entry, the instance is remembered as found
SimValueEntry(t) ==
  /\ pc = "idle"
  /\ pc' = "loop"
  /\ inTime' = t
  /\ entry' = theSampler
  /\ iters' = 0
  /\ theta' = 0
  /\ result' = 0
  /\ UNCHANGED <<theSampler, lastOp, histVars, pyVars, raceVars>>

\* one iteration of the while loop, counted
SimValueIterate ==
  /\ pc = "loop"
  /\ LoopCond(theSampler, inTime)
  /\ theSampler' = Advance(theSampler)
  /\ iters' = iters + 1
  /\ UNCHANGED <<pc, inTime, theta, result, lastOp, entry, histVars, pyVars,
                 raceVars>>

\* loop exit, theta and the return
SimValueExit ==
  /\ pc = "loop"
  /\ ~LoopCond(theSampler, inTime)
  /\ theta' = Theta(theSampler, inTime)
  /\ result' = Value(theSampler, inTime)
  /\ pc' = "idle"
  /\ lastOp' = "SimValue"
  /\ UNCHANGED <<theSampler, inTime, callVars, histVars, pyVars, raceVars>>

NextCall ==
  \/ \E inSeed \in Seeds : SeedObserved(inSeed)
  \/ \E t \in CallTimes(theSampler) : SimValueEntry(t)
  \/ SimValueIterate
  \/ SimValueExit

SpecCall == Init /\ [][NextCall]_allVars

\* The call counted the cycles it left behind, or found the time at or past
\* the start of the cycle it was entered in: it was not a rewind.
NotRewound == iters > 0 \/ fge(inTime, entry.m_CycleStart)

NonDecreasing(ts) ==
  \A i \in 1 .. Len(ts) : ~IsNaN(ts[i]) /\ (i > 1 => ts[i - 1] <= ts[i])

\* C14 (cycle parameters depend only on the seed): after any non-decreasing
\* run of calls since Seed(s) or Construct(s), the instance is in the cycle
\* (start, period, amplitude, engine) that a fresh Sampler(s) reaches when it
\* is asked the last time directly, and the last call returned the value the
\* fresh one returns.
InvC14 ==
  (pc = "idle" /\ recording /\ times # << >> /\ NonDecreasing(times)) =>
    LET t == times[Len(times)]
        fresh == Construct(lastSeed)
    IN /\ theSampler = SimValueState(fresh, t)
       /\ values[Len(times)] = SimValueResult(fresh, t)

\* C14 witness: after a Seed, two calls with increasing times, each of which
\* left cycles behind.
WitC14 ==
  /\ pc = "idle" /\ recording /\ seeded
  /\ Len(times) = 2 /\ times[1] < times[2]
  /\ ReplayState(Construct(lastSeed), <<times[1]>>).m_CycleStart > 0
  /\ theSampler.m_CycleStart
       > ReplayState(Construct(lastSeed), <<times[1]>>).m_CycleStart

\* ---------------------------------------------- claims on SpecCall, continued

\* The engine after k draws.
RECURSIVE DrawAfter(_, _)
DrawAfter(rng, k) == IF k = 0 THEN rng ELSE NextEngine(DrawAfter(rng, k - 1))

\* Period and amplitude of the k-th cycle after the one self is in: the draws
\* 2k-1 and 2k of self's engine.
PeriodOfCycle(self, k) ==
  IF k = 0 THEN self.m_Period ELSE m_PeriodDist(DrawAfter(self.m_Rng, 2 * k - 1))

AmplitudeOfCycle(self, k) ==
  IF k = 0 THEN self.m_Amplitude ELSE m_AmpDist(DrawAfter(self.m_Rng, 2 * k))

\* self's cycle start plus the periods of the n cycles from self's on, as the
\* exact sum and as n float additions.
RECURSIVE ExactStart(_, _)
ExactStart(self, n) ==
  IF n = 0 THEN self.m_CycleStart
  ELSE ExactStart(self, n - 1) + PeriodOfCycle(self, n - 1)

RECURSIVE FloatStart(_, _)
FloatStart(self, n) ==
  IF n = 0 THEN self.m_CycleStart
  ELSE fadd(FloatStart(self, n - 1), PeriodOfCycle(self, n - 1))

\* After n iterations the engine has made 2n draws, the odd ones for periods
\* and the even ones for amplitudes.
DrawsInOrder ==
  /\ theSampler.m_Rng = DrawAfter(entry.m_Rng, 2 * iters)
  /\ theSampler.m_Period = PeriodOfCycle(entry, iters)
  /\ theSampler.m_Amplitude = AmplitudeOfCycle(entry, iters)

\* C15 (cycle-advance step) as claimed: a call that has made n iterations has
\* consumed 2n draws, period first, and m_CycleStart is its old value plus
\* the sum of the n periods left behind.
CexC15 ==
  (pc = "loop" \/ Returned) =>
    /\ DrawsInOrder
    /\ theSampler.m_CycleStart = ExactStart(entry, iters)

\* C15 amended: the draws are as claimed, in the order of construction and of
\* Seed; m_CycleStart is its old value after n float additions of the periods
\* left behind, each rounded, and never below the old value.
InvC15 ==
  /\ (pc = "loop" \/ Returned) =>
       /\ DrawsInOrder
       /\ theSampler.m_CycleStart = FloatStart(entry, iters)
       /\ theSampler.m_CycleStart >= entry.m_CycleStart
  /\ (pc = "idle" /\ lastOp = "Seed") =>
       \E inSeed \in Seeds :
         /\ theSampler.m_Rng = DrawAfter(SeedEngine(inSeed), 2)
         /\ theSampler.m_Period = m_PeriodDist(DrawAfter(SeedEngine(inSeed), 1))
         /\ theSampler.m_Amplitude = m_AmpDist(DrawAfter(SeedEngine(inSeed), 2))

\* C15 witness: a returned call that left several cycles behind and whose
\* m_CycleStart is not the exact sum.
WitC15 ==
  /\ Returned /\ iters >= 2
  /\ theSampler.m_CycleStart # ExactStart(entry, iters)

\* C16 (no change inside or before the current cycle) as claimed, the sum
\* being the exact one: a call whose time is below m_CycleStart + m_Period
\* makes no iteration and leaves the instance as it found it.
CexC16 ==
  (Returned /\ ~IsNaN(inTime)
     /\ inTime < entry.m_CycleStart + entry.m_Period) =>
    /\ iters = 0
    /\ theSampler = entry

\* C16 amended: a call whose time is below the float sum m_CycleStart +
\* m_Period, the one the loop tests, returns without an
\* iteration and leaves m_CycleStart, m_Period, m_Amplitude and the engine as
\* it found them, also when the time is before m_CycleStart; the same call
\* made again changes nothing either and returns the same value.  No call
\* lowers m_CycleStart.
InvC16 ==
  /\ (Returned /\ ~IsNaN(inTime)
        /\ inTime < fadd(entry.m_CycleStart, entry.m_Period)) =>
       /\ iters = 0
       /\ theSampler = entry
       /\ SimValueState(theSampler, inTime) = theSampler
       /\ SimValueResult(theSampler, inTime) = result
  /\ (pc = "loop" \/ Returned) =>
       theSampler.m_CycleStart >= entry.m_CycleStart

\* C16 witness: a returned call with a time before the start of a cycle that
\* earlier calls had advanced to.
WitC16 ==
  /\ Returned /\ ~IsNaN(inTime)
  /\ entry.m_CycleStart > 0
  /\ inTime < entry.m_CycleStart
  /\ theSampler = entry

\* ------------------------------------------ two threads on the same instance

\* The statements of Seed and of SimValue's loop body, one at a time.  Two
\* unsynchronised calls are a data race; the interleavings of whole
\* statements are among the outcomes it can have.
ReseedEngine(self, inSeed) == [self EXCEPT !.m_Rng = SeedEngine(inSeed)]

ResetCycleStart(self) == [self EXCEPT !.m_CycleStart = 0]

AddPeriod(self) ==
  [self EXCEPT !.m_CycleStart = fadd(self.m_CycleStart, self.m_Period)]

DrawPeriod(self) ==
  [self EXCEPT !.m_Rng = NextEngine(self.m_Rng),
               !.m_Period = m_PeriodDist(NextEngine(self.m_Rng))]

DrawAmplitude(self) ==
  [self EXCEPT !.m_Rng = NextEngine(self.m_Rng),
               !.m_Amplitude = m_AmpDist(NextEngine(self.m_Rng))]

\* Times the threads pass.
RaceTimes == {0, One, 3 * One}

\* A lock around Seed and SimValue: a thread runs only while no other thread
\* is inside a call.
MayRunLocked(i) == \A j \in Threads \ {i} : tpc[j] \in {"start", "done"}

\* Neither Seed nor SimValue waits for anything: a thread may always take
\* its next step.
MayRun(i) == TRUE

InCall(i) == tpc[i] \notin {"start", "done"}

\* Thread i moves to position p; the rest of the race state is given by the
\* action that uses it.
Goto(i, p) == tpc' = [tpc EXCEPT ![i] = p]

RaceFrame == UNCHANGED <<ctlVars, histVars, callVars, pyVars>>

\* thread i calls theSampler.SimValue(t)
RaceSimValue(i, t) ==
  /\ MayRun(i)
  /\ tpc[i] = "start"
  /\ Goto(i, "test")
  /\ tCall' = [tCall EXCEPT ![i] = [fn |-> "sim_value", arg |-> t]]
  /\ overlapped' = (overlapped \/ \E j \in Threads \ {i} : InCall(j))
  /\ UNCHANGED <<theSampler, tTheta, tRet>>
  /\ RaceFrame

\* thread i calls theSampler.Seed(inSeed)
RaceSeed(i, inSeed) ==
  /\ MayRun(i)
  /\ tpc[i] = "start"
  /\ Goto(i, "seedRng")
  /\ tCall' = [tCall EXCEPT ![i] = [fn |-> "seed", arg |-> inSeed]]
  /\ overlapped' = (overlapped \/ \E j \in Threads \ {i} : InCall(j))
  /\ UNCHANGED <<theSampler, tTheta, tRet>>
  /\ RaceFrame

\* while (inTime >= m_CycleStart + m_Period)
RaceTest(i) ==
  /\ MayRun(i)
  /\ tpc[i] = "test"
  /\ Goto(i, IF LoopCond(theSampler, tCall[i].arg) THEN "add" ELSE "theta")
  /\ UNCHANGED <<theSampler, tCall, tTheta, tRet, overlapped>>
  /\ RaceFrame

\* a statement of the loop body or of Seed: thread i at position p applies
\* the statement and moves to position q
RaceStatement(i, p, after, q) ==
  /\ MayRun(i)
  /\ tpc[i] = p
  /\ theSampler' = after
  /\ Goto(i, q)
  /\ UNCHANGED <<tCall, tTheta, tRet, overlapped>>
  /\ RaceFrame

RaceAdd(i) == RaceStatement(i, "add", AddPeriod(theSampler), "drawPeriod")
RaceDrawPeriod(i) ==
  RaceStatement(i, "drawPeriod", DrawPeriod(theSampler), "drawAmplitude")
RaceDrawAmplitude(i) ==
  RaceStatement(i, "drawAmplitude", DrawAmplitude(theSampler), "test")

RaceSeedRng(i) ==
  RaceStatement(i, "seedRng", ReseedEngine(theSampler, tCall[i].arg), "seedStart")
RaceSeedStart(i) ==
  RaceStatement(i, "seedStart", ResetCycleStart(theSampler), "seedPeriod")
RaceSeedPeriod(i) ==
  RaceStatement(i, "seedPeriod", DrawPeriod(theSampler), "seedAmplitude")
RaceSeedAmplitude(i) ==
  RaceStatement(i, "seedAmplitude", DrawAmplitude(theSampler), "done")

\* float theta = 2.0f * float(M_PI) * (inTime - m_CycleStart) / m_Period
RaceTheta(i) ==
  /\ MayRun(i)
  /\ tpc[i] = "theta"
  /\ tTheta' = [tTheta EXCEPT ![i] = Theta(theSampler, tCall[i].arg)]
  /\ Goto(i, "return")
  /\ UNCHANGED <<theSampler, tCall, tRet, overlapped>>
  /\ RaceFrame

\* return m_Amplitude * std::sin(theta)
RaceReturn(i) ==
  /\ MayRun(i)
  /\ tpc[i] = "return"
  /\ tRet' = [tRet EXCEPT ![i] = <<fmul(theSampler.m_Amplitude, Sin(tTheta[i]))>>]
  /\ Goto(i, "done")
  /\ UNCHANGED <<theSampler, tCall, tTheta, overlapped>>
  /\ RaceFrame

ThreadNext(i) ==
  \/ \E t \in RaceTimes : RaceSimValue(i, t)
  \/ \E inSeed \in Seeds : RaceSeed(i, inSeed)
  \/ RaceTest(i)
  \/ RaceAdd(i)
  \/ RaceDrawPeriod(i)
  \/ RaceDrawAmplitude(i)
  \/ RaceTheta(i)
  \/ RaceReturn(i)
  \/ RaceSeedRng(i)
  \/ RaceSeedStart(i)
  \/ RaceSeedPeriod(i)
  \/ RaceSeedAmplitude(i)

NextRace == \E i \in Threads : ThreadNext(i)

SpecRace == Init /\ [][NextRace]_allVars

\* The outcome of the two calls made one after the other, thread i first:
\* the state left and what each thread's call returned.
SerialOutcome(i, j) ==
  LET s0 == Construct(DefaultSeed)
      s1 == CoreStep(s0, tCall[i])
  IN [state |-> CoreStep(s1, tCall[j]),
      rets |-> [k \in Threads |->
                  IF k = i THEN CoreReturn(s0, tCall[i])
                  ELSE CoreReturn(s1, tCall[j])]]

Outcome == [state |-> theSampler, rets |-> tRet]

BothDone == \A i \in Threads : tpc[i] = "done"

\* C17 (no thread safety): a thread that has not finished its call may take
\* its next step whatever the other thread is in the middle of (nothing in
\* Seed or SimValue makes it wait), and only calls that do not overlap are
\* sure to leave the outcome of a serial order.
InvC17 ==
  /\ \A i \in Threads : tpc[i] # "done" => MayRun(i)
  /\ (BothDone /\ ~overlapped) =>
       Outcome \in {SerialOutcome(1, 2), SerialOutcome(2, 1)}

\* C17 witness: two overlapping SimValue calls have returned and left a state
\* or returned values that neither serial order of the two calls produces.
WitC17 ==
  /\ BothDone /\ overlapped
  /\ \A i \in Threads : tCall[i].fn = "sim_value"
  /\ Outcome \notin {SerialOutcome(1, 2), SerialOutcome(2, 1)}

====
